---- MODULE Spec2Model ----
(***************************************************************************)
(* State-machine model of the recursive context menu of the editor UI      *)
(* (Menu / MenuPresenter, packages/editor/src/utils/html.ts lines 96-319). *)
(*                                                                         *)
(* A menu level is one mounted instance of the Menu component.  React      *)
(* identifies a component instance by its position in the render tree, and *)
(* a Menu renders at most one nested Menu (lines 214-224), so the mounted  *)
(* instances form a chain and are indexed by their depth.  The state of an *)
(* instance (the useState cells behind useFocus and the hoverTimeout ref)  *)
(* lives as long as the instance stays mounted at that position.           *)
(*                                                                         *)
(* The pointer is over at most one menu button: the browser delivers the   *)
(* mouseleave of a button before the mouseenter of the next one, and a     *)
(* button that is unmounted under the pointer gets no mouseleave.          *)
(*                                                                         *)
(* useFocus (keyboard handling and the two state cells), MenuButton and    *)
(* the owner of MenuPresenter are not part of the file; their behaviour is *)
(* taken from the design specification: plain per-instance state starting  *)
(* at "no focus, no submenu", navigation over visible enabled items with   *)
(* wrap-around, confirm and escape.                                        *)
(*                                                                         *)
(* Item indices are 1-based here (TLA+ sequences); the code's "no focus"   *)
(* value -1 is kept.                                                       *)
(*                                                                         *)
(* Further specifications over the same module: SpecNav (keyboard          *)
(* navigation over any item sequence), SpecThemes (the theme browser,      *)
(* themes-selector.tsx), SpecShare (the share-extension store and its      *)
(* key-value storage), SpecShareTheme (its initial theme), SpecSessions    *)
(* (previous sessions of the properties panel) and SpecToggle (the content *)
(* toggle of the diff viewer).  Each leaves the variables of the others    *)
(* untouched.                                                              *)
(***************************************************************************)
EXTENDS Integers, Sequences, FiniteSets, TLC

(* ----------------------------- bounds --------------------------------- *)
\* deepest level that can be mounted is MaxDepth (root is depth 0)
MaxDepth == 2
\* how many times the owner opens the menu in one behaviour
MaxOpens == 2
\* how often one click handler may run within one open lifecycle
MaxInvocations == 2
\* longest item sequence handed to the keyboard navigation on its own
MaxLen == 3
\* how many install requests the theme browser starts in one behaviour
MaxRequests == 2
\* how many session entries are clicked in one behaviour
MaxClicks == 3
\* how many passwords the vault dialog takes for one locked session
MaxAttempts == 2
\* how many times the share extension is started in one behaviour
MaxLaunches == 2
\* how many clicks a content toggle takes in one behaviour
MaxToggleClicks == 2

Depths == 0..MaxDepth

(* --------------------------- program data ----------------------------- *)
\* setFocusIndex(-1): no item focused
NoFocus == -1
None == "none"
\* hoverTimeout.current when no timer is pending
NoTimer == [index |-> NoFocus, isSubmenuOpen |-> FALSE, menu |-> FALSE,
            pending |-> FALSE]
\* the pointer is over no menu button
Nowhere == << NoFocus, NoFocus >>

\* MenuItem (types.ts, consumed at lines 164-211): separator | button | popup.
\* menu: name of the nested menu or None; onClick: None, "ok" or "throws".
Button(k, hid, dis, m, oc) ==
  [key |-> k, type |-> "button", isHidden |-> hid, isDisabled |-> dis,
   menu |-> m, onClick |-> oc]
Separator(k) ==
  [key |-> k, type |-> "separator", isHidden |-> FALSE, isDisabled |-> FALSE,
   menu |-> None, onClick |-> None]
Popup(k) ==
  [key |-> k, type |-> "popup", isHidden |-> FALSE, isDisabled |-> FALSE,
   menu |-> None, onClick |-> None]
NoItem ==
  [key |-> None, type |-> None, isHidden |-> FALSE, isDisabled |-> FALSE,
   menu |-> None, onClick |-> None]

\* The item sequences handed to the menu: a root with two submenu owners,
\* a separator, a leaf, a disabled item, a hidden item and a popup; the
\* first submenu nests a further one, the second holds hidden and disabled
\* items only.
Menus ==
  [R  |-> << Button("a", FALSE, FALSE, "MA", None),
             Button("b", FALSE, FALSE, "MB", None),
             Separator("s"),
             Button("l", FALSE, FALSE, None, "ok"),
             Button("d", FALSE, TRUE, None, "ok"),
             Button("h", TRUE, FALSE, None, "ok"),
             Popup("p") >>,
   MA |-> << Button("x", FALSE, FALSE, None, "ok"),
             Button("y", FALSE, FALSE, "MC", None),
             Button("z", FALSE, FALSE, None, "throws") >>,
   MB |-> << Button("hh", TRUE, FALSE, None, "ok"),
             Button("hm", TRUE, FALSE, "MC", None),
             Button("dd", FALSE, TRUE, "MC", "ok") >>,
   MC |-> << Button("u", FALSE, FALSE, None, "ok"),
             Button("v", FALSE, FALSE, None, None) >>]
Root == "R"
MenuNames == DOMAIN Menus
AllItems == UNION { { Menus[m][i] : i \in DOMAIN Menus[m] } : m \in MenuNames }
Handlers == { it.key : it \in { x \in AllItems : x.onClick # None } }

VARIABLES
  isOpen,         \* MenuPresenter's isOpen prop, held by the owner
  opens,          \* number of times the owner has opened the menu
  items,          \* items[d]: the items prop of the level mounted at depth d, or None
  focusIndex,     \* focusIndex[d]: useFocus state of level d
  isSubmenuOpen,  \* isSubmenuOpen[d]: useFocus state of level d
  hoverTimeout,   \* hoverTimeout[d]: pending timer of level d (its closure), or NoTimer
  staleTimers,    \* staleTimers[d]: a timer of an unmounted instance is still pending
  hover,          \* <<d, i>>: the rendered button under the pointer, or Nowhere
  visibility,     \* visibility[d]: style.visibility of the submenu box of level d
  position,       \* position[d]: key of the item the box was last placed at, or None
  invoked,        \* invoked[k]: runs of item k's onClick in this open lifecycle
  last            \* the last event and what it called

MenuVars == << isOpen, opens, items, focusIndex, isSubmenuOpen, hoverTimeout,
               staleTimers, hover, visibility, position, invoked, last >>

\* One menu level on its own, driven by the keyboard only (useFocus).
VARIABLES
  navItems,       \* the items prop handed to useFocus
  navFocus,       \* its focusIndex
  navTrail        \* where the current run of "next" steps started, and its length

NavVars == << navItems, navFocus, navTrail >>

\* The theme browser (ThemesList, themes-selector.tsx lines 71-260).
VARIABLES
  isApplying,     \* useState cell of line 76
  requests,       \* installTheme queries awaited by a running setTheme
  started,        \* number of queries started so far
  darkTheme,      \* theme store: id of the applied dark theme
  lightTheme,     \* theme store: id of the applied light theme
  details         \* theme shown by the open details dialog, or None

ThemeVars == << isApplying, requests, started, darkTheme, lightTheme, details >>

\* The share-extension store (useShareStore) and the key-value storage.
VARIABLES
  mmkv,              \* MMKV: per storage key, whether it is set and its text
  absent,            \* what MMKV.getString answers for a key that is not set
  appendNote,        \* store field appendNote
  selectedNotebooks, \* store field selectedNotebooks
  selectedTags,      \* store field selectedTags
  selectedTag,       \* store field selectedTag (set by restore only)
  restoreThrew,      \* the last call of restore threw
  phase,             \* "fresh" store, "restored", or "used" by a setter
  stored             \* per storage key, the value a setter last wrote

ShareVars == << mmkv, absent, appendNote, selectedNotebooks, selectedTags,
                selectedTag, restoreThrew, phase, stored >>

\* The "Previous Sessions" card of the properties panel (index.jsx).
VARIABLES
  propertiesOpen, \* app store: the properties panel is shown
  onClickAt,      \* position of the running onClick: "idle", "content", "password"
  session,        \* the session entry whose onClick is running or ran last
  effects,        \* what that onClick has called and returned so far, in order
  clicks          \* number of session entries clicked so far

SessionVars == << propertiesOpen, onClickAt, session, effects, clicks >>

\* The theme initialisation of the share extension (module top level).
VARIABLES
  systemScheme,   \* Appearance.getColorScheme(): "dark", "light" or None
  appSettings,    \* the settings object stored under "appSettings", if any
  engineTheme,    \* theme set on the theme engine store, None before the start
  shareTheme,     \* theme field of the share store, None before the start
  launches        \* number of starts of the share extension so far

ShareThemeVars == << systemScheme, appSettings, engineTheme, shareTheme, launches >>

\* One content toggle of the diff viewer (ContentToggle).
VARIABLES
  isSelected,      \* prop isSelected
  isOtherSelected, \* prop isOtherSelected
  label,           \* rendered text of the main button
  saveCopyShown,   \* the "Save copy" button is rendered
  toggleLog,       \* per click: the button, the props then, the callbacks called
  toggleClicks     \* number of clicks so far

ToggleVars == << isSelected, isOtherSelected, label, saveCopyShown, toggleLog,
                 toggleClicks >>

\* the small components outside the menu, the theme browser and the store
WidgetVars == << SessionVars, ShareThemeVars, ToggleVars >>

vars == << MenuVars, NavVars, ThemeVars, ShareVars, WidgetVars >>

\* the parts of the program a menu event does not touch
OutsideMenu == << NavVars, ThemeVars, ShareVars, WidgetVars >>
\* the parts of the program below the small components
EarlierVars == << MenuVars, NavVars, ThemeVars, ShareVars >>
OutsideSessions == << EarlierVars, ShareThemeVars, ToggleVars >>
OutsideShareTheme == << EarlierVars, SessionVars, ToggleVars >>
OutsideToggle == << EarlierVars, SessionVars, ShareThemeVars >>

Mounted(d) == items[d] # None

\* items[index] of a menu, undefined (NoItem) outside the array
ItemOf(m, i) ==
  IF m # None /\ i \in DOMAIN Menus[m] THEN Menus[m][i] ELSE NoItem

\* the item at the focus index of level d: items[focusIndex] (lines 130, 135)
FocusedItem(d) == ItemOf(items[d], focusIndex[d])

Event(op, d, i, it, nclose, handler, threw) ==
  [op |-> op, d |-> d, i |-> i, item |-> it, onClose |-> nclose,
   onClick |-> handler, threw |-> threw]

(* ----------------------------- rendering ------------------------------ *)
\* SubmenuOf without the isSubmenuOpen conjunct of line 214
SubmenuWithoutOpenFlag(m, f, o) ==
  LET focusedItem == ItemOf(m, f)
  IN  IF focusedItem.type = "button" /\ focusedItem.menu # None
      THEN focusedItem.menu
      ELSE None

\* Lines 214-224: the nested Menu is rendered iff the focused item is a
\* button that owns a menu and isSubmenuOpen; its items prop is that menu.
SubmenuOf(m, f, o) ==
  LET focusedItem == ItemOf(m, f)
  IN  IF focusedItem.type = "button" /\ focusedItem.menu # None /\ o
      THEN focusedItem.menu
      ELSE None

Fresh(x) == [d \in Depths |-> x]

\* State a level renders with: an instance that was mounted keeps its state,
\* a newly mounted one starts from useFocus' initial state.
Kept(d, cur, fresh) == IF Mounted(d) THEN cur[d] ELSE fresh

\* RenderItems with a nested level that outlives its owner
RECURSIVE RenderItemsDetached(_, _, _, _)
RenderItemsDetached(d, io, f, o) ==
  IF d = 0
  THEN IF io THEN Root ELSE None
  ELSE LET up == RenderItemsDetached(d - 1, io, f, o)
       IN  IF up = None
           THEN items[d]
           ELSE SubmenuOf(up, Kept(d - 1, f, NoFocus), Kept(d - 1, o, FALSE))

\* The items prop of the level at depth d after a render with root open flag
\* io and per-level state f (focus) and o (submenu flag): line 311 for the
\* root, line 222 for a nested level.
RECURSIVE RenderItems(_, _, _, _)
RenderItems(d, io, f, o) ==
  IF d = 0
  THEN IF io THEN Root ELSE None
  ELSE LET up == RenderItems(d - 1, io, f, o)
       IN  IF up = None
           THEN None
           ELSE SubmenuOf(up, Kept(d - 1, f, NoFocus), Kept(d - 1, o, FALSE))

\* document.getElementById(item.key + "-menu-item") finds an element
\* (line 142): MenuButton renders one for every button that is not hidden
AnchorExists(it) == it.type = "button" /\ ~it.isHidden

\* The position effect of lines 138-159 for the submenu box of a level whose
\* focused item is it: shown tells whether the box of lines 215-223 is
\* rendered (subMenuRef.current), old is the style the box carries so far.
\* The isSubmenuOpen test of line 145 is never reached with a box rendered.
PositionEffect(it, shown, old) ==
  IF it = NoItem \/ ~shown THEN old
  ELSE IF ~AnchorExists(it) THEN old
  ELSE [visibility |-> "visible", position |-> it.key]

\* the style a newly rendered submenu box starts with, line 217
HiddenBox == [visibility |-> "hidden", position |-> None]

\* One React commit after a handler left the state (io, f, o, t) and the
\* pointer at h.  Unmounted levels lose their state; a timer pending in an
\* unmounted level is not cleared by anything (there is no effect cleanup
\* for hoverTimeout, lines 113 and 138-159) and stays pending in the browser.
Commit(io, f, o, t, h) ==
  LET ni == [d \in Depths |-> RenderItems(d, io, f, o)]
      keep(d) == ni[d] # None /\ Mounted(d)
      shown(d) == d < MaxDepth /\ ni[d + 1] # None
      box(d) == IF shown(d) /\ keep(d) /\ Mounted(d + 1)
                THEN [visibility |-> visibility[d], position |-> position[d]]
                ELSE HiddenBox
      style(d) == PositionEffect(ItemOf(ni[d], IF keep(d) THEN f[d] ELSE NoFocus),
                                 shown(d), box(d))
  IN  /\ isOpen' = io
      /\ visibility' = [d \in Depths |-> style(d).visibility]
      /\ position' = [d \in Depths |-> style(d).position]
      /\ items' = ni
      /\ focusIndex' = [d \in Depths |-> IF keep(d) THEN f[d] ELSE NoFocus]
      /\ isSubmenuOpen' = [d \in Depths |-> IF keep(d) THEN o[d] ELSE FALSE]
      /\ hoverTimeout' = [d \in Depths |-> IF keep(d) THEN t[d] ELSE NoTimer]
      /\ staleTimers' = [d \in Depths |->
                           staleTimers[d] \/ (~keep(d) /\ t[d].pending)]
      /\ hover' = IF h # Nowhere /\ ni[h[1]] # None /\ ni[h[1]] = items[h[1]]
                  THEN h ELSE Nowhere
      /\ UNCHANGED OutsideMenu

InitMenu ==
  /\ isOpen = TRUE
  /\ opens = 1
  /\ items = [d \in Depths |-> IF d = 0 THEN Root ELSE None]
  /\ focusIndex = Fresh(NoFocus)
  /\ isSubmenuOpen = Fresh(FALSE)
  /\ hoverTimeout = Fresh(NoTimer)
  /\ staleTimers = Fresh(FALSE)
  /\ hover = Nowhere
  /\ visibility = Fresh("hidden")
  /\ position = Fresh(None)
  /\ invoked = [k \in Handlers |-> 0]
  /\ last = Event("open", 0, NoFocus, NoItem, 0, None, FALSE)

\* no separate keyboard session
NavIdle ==
  /\ navItems = << >>
  /\ navFocus = NoFocus
  /\ navTrail = [from |-> NoFocus, n |-> 0]

\* the built-in themes applied before anything is installed
DefaultDark == "defaultDark"
DefaultLight == "defaultLight"

\* the theme browser as first rendered
InitThemes ==
  /\ isApplying = FALSE
  /\ requests = {}
  /\ started = 0
  /\ darkTheme = DefaultDark
  /\ lightTheme = DefaultLight
  /\ details = None

(* JavaScript values: null, undefined, an object (a note, by id), an array
   of id strings, a string (its text as a sequence of tokens), and the
   outcome "threw" of an expression. *)
JsValue(t, id, a) == [t |-> t, id |-> id, a |-> a]
JsNull == JsValue("null", None, << >>)
JsUndefined == JsValue("undefined", None, << >>)
JsObject(id) == JsValue("object", id, << >>)
JsArray(a) == JsValue("array", None, a)
JsString(text) == JsValue("string", None, text)
JsThrow == JsValue("throw", None, << >>)

\* StorageKeys, lines 134-139
StorageKeys ==
  [appendNote |-> "shareMenuAppendNote",
   selectedNotebooks |-> "shareMenuSelectedNotebooks",
   selectedTag |-> "shareMenuSelectedTag"]
KeyNames == { StorageKeys[f] : f \in DOMAIN StorageKeys }
Unset == [has |-> FALSE, text |-> << >>]

\* a new store over empty storage, lines 156-159 and 174-175
FreshStore ==
  /\ appendNote = JsNull
  /\ selectedNotebooks = JsArray(<< >>)
  /\ selectedTags = JsArray(<< >>)
  /\ selectedTag = JsUndefined
  /\ restoreThrew = FALSE
  /\ phase = "fresh"

InitShare ==
  /\ FreshStore
  /\ mmkv = [k \in KeyNames |-> Unset]
  /\ stored = [k \in KeyNames |-> JsUndefined]
  /\ absent = JsNull

\* a session entry of versionHistory
NoSession == [id |-> None, locked |-> FALSE]

\* the properties panel is shown and no entry has been clicked
InitSessions ==
  /\ propertiesOpen = TRUE
  /\ onClickAt = "idle"
  /\ session = NoSession
  /\ effects = << >>
  /\ clicks = 0

\* the settings object: nothing stored, or the stored themes by property
NoSettings == [has |-> FALSE, props |-> [darkTheme |-> None, lightTheme |-> None]]
Settings(dark, light) ==
  [has |-> TRUE, props |-> [darkTheme |-> dark, lightTheme |-> light]]

\* the share extension is not running; nothing is stored
ShareThemeIdle ==
  /\ systemScheme = "light"
  /\ appSettings = NoSettings
  /\ engineTheme = None
  /\ shareTheme = None
  /\ launches = 0

\* text of the main button, line 61
MainLabel(sel, other) ==
  IF sel THEN "Undo" ELSE IF other THEN "Discard" ELSE "Keep"

\* the "Save copy" button is rendered, line 38
SaveCopyRendered(other) == other

\* ContentToggle rendered with the props (sel, other)
Rendered(sel, other) ==
  /\ isSelected = sel
  /\ isOtherSelected = other
  /\ label = MainLabel(sel, other)
  /\ saveCopyShown = SaveCopyRendered(other)

\* a toggle of a side nobody has selected, never clicked
ToggleIdle ==
  /\ Rendered(FALSE, FALSE)
  /\ toggleLog = << >>
  /\ toggleClicks = 0

WidgetsIdle == InitSessions /\ ShareThemeIdle /\ ToggleIdle

Init == InitMenu /\ NavIdle /\ InitThemes /\ InitShare /\ WidgetsIdle

(* ------------------------------ handlers ------------------------------ *)
\* What a call of onAction does (lines 114-124): run item.onClick if there is
\* one, then onClose.  A throwing onClick leaves the function at line 119.
\* Result: [onClick: the handler that ran or None, threw, onClose: calls made].
OnAction(it) ==
  LET ran == it.onClick # None
      threw == it.onClick = "throws"
  IN  [onClick |-> IF ran THEN it.key ELSE None,
       threw |-> threw,
       onClose |-> IF threw THEN 0 ELSE 1]

\* a button element MenuButton renders for items[i] of level d (lines 165-206)
IsButton(d, i) ==
  /\ Mounted(d)
  /\ i \in DOMAIN Menus[items[d]]
  /\ ~Menus[items[d]][i].isHidden
  /\ Menus[items[d]][i].type = "button"

\* MouseEnter writing one focus index shared by the level and its owners
MouseEnterSharedFocus(d, i) ==
  /\ hover = Nowhere
  /\ IsButton(d, i)
  /\ LET item == Menus[items[d]][i]
         f == IF item.isDisabled
              THEN [e \in Depths |-> IF e <= d THEN NoFocus ELSE focusIndex[e]]
              ELSE IF ~isSubmenuOpen[d]
                   THEN [e \in Depths |-> IF e <= d THEN i ELSE focusIndex[e]]
                   ELSE focusIndex
         t == IF item.isDisabled
              THEN hoverTimeout
              ELSE [hoverTimeout EXCEPT ![d] =
                      [index |-> i, isSubmenuOpen |-> isSubmenuOpen[d],
                       menu |-> item.menu # None, pending |-> TRUE]]
     IN  /\ Commit(isOpen, f, isSubmenuOpen, t, << d, i >>)
         /\ last' = [op |-> "enter", d |-> d, i |-> i, item |-> item,
                     onClose |-> 0, onClick |-> None, threw |-> FALSE]
  /\ UNCHANGED << opens, invoked >>

\* MouseEnter without the isSubmenuOpen test of line 187
MouseEnterAlwaysFocuses(d, i) ==
  /\ hover = Nowhere
  /\ IsButton(d, i)
  /\ LET item == Menus[items[d]][i]
         f == IF item.isDisabled
              THEN [focusIndex EXCEPT ![d] = NoFocus]
              ELSE [focusIndex EXCEPT ![d] = i]
         t == IF item.isDisabled
              THEN hoverTimeout
              ELSE [hoverTimeout EXCEPT ![d] =
                      [index |-> i, isSubmenuOpen |-> isSubmenuOpen[d],
                       menu |-> item.menu # None, pending |-> TRUE]]
     IN  /\ Commit(isOpen, f, isSubmenuOpen, t, << d, i >>)
         /\ last' = [op |-> "enter", d |-> d, i |-> i, item |-> item,
                     onClose |-> 0, onClick |-> None, threw |-> FALSE]
  /\ UNCHANGED << opens, invoked >>

\* onMouseEnter, lines 182-201
MouseEnter(d, i) ==
  /\ hover = Nowhere
  /\ IsButton(d, i)
  /\ LET item == Menus[items[d]][i]
         f == IF item.isDisabled
              THEN [focusIndex EXCEPT ![d] = NoFocus]
              ELSE IF ~isSubmenuOpen[d]
                   THEN [focusIndex EXCEPT ![d] = i]
                   ELSE focusIndex
         t == IF item.isDisabled
              THEN hoverTimeout
              ELSE [hoverTimeout EXCEPT ![d] =
                      [index |-> i, isSubmenuOpen |-> isSubmenuOpen[d],
                       menu |-> item.menu # None, pending |-> TRUE]]
     IN  /\ Commit(isOpen, f, isSubmenuOpen, t, << d, i >>)
         /\ last' = Event("enter", d, i, item, 0, None, FALSE)
  /\ UNCHANGED << opens, invoked >>

\* MouseLeave without the clearTimeout of line 203
MouseLeaveKeepsTimer(d, i) ==
  /\ hover = << d, i >>
  /\ Commit(isOpen, focusIndex, isSubmenuOpen, hoverTimeout, Nowhere)
  /\ last' = [op |-> "leave", d |-> d, i |-> i, item |-> Menus[items[d]][i],
              onClose |-> 0, onClick |-> None, threw |-> FALSE]
  /\ UNCHANGED << opens, invoked >>

\* onMouseLeave, lines 202-204
MouseLeave(d, i) ==
  /\ hover = << d, i >>
  /\ Commit(isOpen, focusIndex, isSubmenuOpen,
            [hoverTimeout EXCEPT ![d] = NoTimer], Nowhere)
  /\ last' = Event("leave", d, i, Menus[items[d]][i], 0, None, FALSE)
  /\ UNCHANGED << opens, invoked >>

\* the setTimeout callback of lines 190-200, run for a mounted level; the
\* closure holds index, item and the isSubmenuOpen of the render that made it
HoverTimer(d) ==
  /\ Mounted(d)
  /\ hoverTimeout[d].pending
  /\ LET t == hoverTimeout[d]
         f == IF t.isSubmenuOpen
              THEN [focusIndex EXCEPT ![d] = t.index]
              ELSE focusIndex
         o == IF ~t.menu
              THEN [isSubmenuOpen EXCEPT ![d] = FALSE]
              ELSE IF t.isSubmenuOpen
                   THEN isSubmenuOpen
                   ELSE [isSubmenuOpen EXCEPT ![d] = TRUE]
     IN  /\ Commit(isOpen, f, o, [hoverTimeout EXCEPT ![d] = NoTimer], hover)
         /\ last' = Event("timer", d, t.index, NoItem, 0, None, FALSE)
  /\ UNCHANGED << opens, invoked >>

\* the same callback run after its level was unmounted: the state setters of
\* an unmounted instance change nothing
StaleHoverTimer(d) ==
  /\ staleTimers[d]
  /\ staleTimers' = [staleTimers EXCEPT ![d] = FALSE]
  /\ last' = Event("staleTimer", d, NoFocus, NoItem, 0, None, FALSE)
  /\ UNCHANGED << isOpen, opens, items, focusIndex, isSubmenuOpen,
                  hoverTimeout, hover, visibility, position, invoked >>
  /\ UNCHANGED OutsideMenu

\* The owner of MenuPresenter answers a call of onClose by setting the isOpen
\* prop to false (lines 286-315 only pass isOpen and onClose through).
AfterOnClose(calls) == IF calls > 0 THEN FALSE ELSE isOpen

\* invoked after a call of onAction with result r
Count(r) ==
  IF r.onClick = None THEN invoked
  ELSE [invoked EXCEPT ![r.onClick] = @ + 1]

MayRun(it) ==
  IF it.onClick = None THEN TRUE ELSE invoked[it.key] < MaxInvocations

\* MenuButton passes a click on to onClick only for an enabled item
Clickable(it) == ~it.isDisabled

\* onClick of a MenuButton, lines 175-180
Click(d, i) ==
  /\ hover = << d, i >>
  /\ IsButton(d, i)
  /\ LET item == Menus[items[d]][i]
     IN  /\ Clickable(item)
         /\ IF item.menu # None
            THEN /\ Commit(isOpen, [focusIndex EXCEPT ![d] = i],
                           [isSubmenuOpen EXCEPT ![d] = TRUE], hoverTimeout, hover)
                 /\ last' = Event("click", d, i, item, 0, None, FALSE)
                 /\ UNCHANGED invoked
            ELSE /\ MayRun(item)
                 /\ LET r == OnAction(item)
                    IN  /\ Commit(AfterOnClose(r.onClose), focusIndex,
                                  isSubmenuOpen, hoverTimeout, hover)
                        /\ invoked' = Count(r)
                        /\ last' = Event("click", d, i, item, r.onClose,
                                         r.onClick, r.threw)
  /\ UNCHANGED opens

\* onClick of a popup item's component, line 209: onAction(e) without an item
ClickPopup(d, i) ==
  /\ Mounted(d)
  /\ hover = Nowhere
  /\ i \in DOMAIN Menus[items[d]]
  /\ LET item == Menus[items[d]][i]
         r == OnAction(NoItem)
     IN  /\ item.type = "popup"
         /\ ~item.isHidden
         /\ Commit(AfterOnClose(r.onClose), focusIndex, isSubmenuOpen,
                   hoverTimeout, hover)
         /\ last' = Event("clickPopup", d, i, item, r.onClose, r.onClick, r.threw)
  /\ UNCHANGED << opens, invoked >>

(* ------------------------- keyboard (useFocus) ------------------------ *)
\* an item keyboard navigation may stop at
Focusable(it) == it.type # "separator" /\ ~it.isHidden /\ ~it.isDisabled

\* the indices of an item sequence navigation may stop at
FocusableIn(its) == { i \in DOMAIN its : Focusable(its[i]) }
FocusableAt(m) == FocusableIn(Menus[m])
Min(S) == CHOOSE x \in S : \A y \in S : x <= y
Max(S) == CHOOSE x \in S : \A y \in S : x >= y

\* NextFocusIn of a controller that stops at the last item
NextFocusNoWrap(its, f) ==
  LET c == FocusableIn(its)
      after == { i \in c : i > f }
  IN  IF after = {} THEN f ELSE Min(after)

\* next focusable index after f, wrapping to the first one
NextFocusIn(its, f) ==
  LET c == FocusableIn(its)
      after == { i \in c : i > f }
  IN  IF c = {} THEN f ELSE IF after = {} THEN Min(c) ELSE Min(after)

\* previous focusable index before f, wrapping to the last one
PrevFocusIn(its, f) ==
  LET c == FocusableIn(its)
      before == { i \in c : i < f }
  IN  IF c = {} THEN f ELSE IF before = {} THEN Max(c) ELSE Max(before)

NextFocus(m, f) == NextFocusIn(Menus[m], f)
PrevFocus(m, f) == PrevFocusIn(Menus[m], f)

\* downward / upward navigation of a level that shows no submenu
Navigate(d, down) ==
  /\ Mounted(d)
  /\ ~isSubmenuOpen[d]
  /\ LET j == IF down THEN NextFocus(items[d], focusIndex[d])
                      ELSE PrevFocus(items[d], focusIndex[d])
     IN  /\ Commit(isOpen, [focusIndex EXCEPT ![d] = j], isSubmenuOpen,
                   hoverTimeout, hover)
         /\ last' = Event(IF down THEN "down" ELSE "up", d, j, NoItem, 0, None, FALSE)
  /\ UNCHANGED << opens, invoked >>

\* ConfirmOpensSubmenu of a controller that hands every confirm to the callback
ConfirmNeverOpens(it) == FALSE

\* confirm on a button that owns a menu opens it instead of acting
ConfirmOpensSubmenu(it) == it.type = "button" /\ it.menu # None

\* the action callback handed to useFocus, lines 129-132
ConfirmCallback(it) ==
  IF it # NoItem /\ it.type = "button"
  THEN OnAction(it)
  ELSE [onClick |-> None, threw |-> FALSE, onClose |-> 0]

\* the confirm key
Confirm(d) ==
  /\ Mounted(d)
  /\ LET item == FocusedItem(d)
     IN  IF ConfirmOpensSubmenu(item)
         THEN /\ Commit(isOpen, focusIndex, [isSubmenuOpen EXCEPT ![d] = TRUE],
                        hoverTimeout, hover)
              /\ last' = Event("confirm", d, focusIndex[d], item, 0, None, FALSE)
              /\ UNCHANGED invoked
         ELSE /\ MayRun(item)
              /\ LET r == ConfirmCallback(item)
                 IN  /\ Commit(AfterOnClose(r.onClose), focusIndex, isSubmenuOpen,
                               hoverTimeout, hover)
                     /\ invoked' = Count(r)
                     /\ last' = Event("confirm", d, focusIndex[d], item,
                                      r.onClose, r.onClick, r.threw)
  /\ UNCHANGED opens

\* Escape of a nested Menu that was handed a close of its own level only
EscapeClosesOwnLevel(d) ==
  /\ Mounted(d)
  /\ IF d = 0
     THEN /\ Commit(AfterOnClose(1), focusIndex, isSubmenuOpen, hoverTimeout, hover)
          /\ last' = [op |-> "escape", d |-> d, i |-> focusIndex[d],
                      item |-> NoItem, onClose |-> 1, onClick |-> None,
                      threw |-> FALSE]
     ELSE /\ Commit(isOpen, focusIndex, [isSubmenuOpen EXCEPT ![d - 1] = FALSE],
                    hoverTimeout, hover)
          /\ last' = [op |-> "escape", d |-> d, i |-> focusIndex[d],
                      item |-> NoItem, onClose |-> 0, onClick |-> None,
                      threw |-> FALSE]
  /\ UNCHANGED << opens, invoked >>

\* the close callback handed to useFocus, line 133: escape
Escape(d) ==
  /\ Mounted(d)
  /\ Commit(AfterOnClose(1), focusIndex, isSubmenuOpen, hoverTimeout, hover)
  /\ last' = Event("escape", d, focusIndex[d], NoItem, 1, None, FALSE)
  /\ UNCHANGED << opens, invoked >>

\* the owner shows the menu again: a new open lifecycle
Reopen ==
  /\ ~isOpen
  /\ opens < MaxOpens
  /\ Commit(TRUE, focusIndex, isSubmenuOpen, hoverTimeout, hover)
  /\ opens' = opens + 1
  /\ invoked' = [k \in Handlers |-> 0]
  /\ last' = Event("open", 0, NoFocus, NoItem, 0, None, FALSE)

\* every index of every menu
ItemIndices == UNION { DOMAIN Menus[m] : m \in MenuNames }

Next ==
  \/ \E d \in Depths, i \in ItemIndices : MouseEnter(d, i)
  \/ \E d \in Depths, i \in ItemIndices : MouseLeave(d, i)
  \/ \E d \in Depths : HoverTimer(d)
  \/ \E d \in Depths : StaleHoverTimer(d)
  \/ \E d \in Depths, i \in ItemIndices : Click(d, i)
  \/ \E d \in Depths, i \in ItemIndices : ClickPopup(d, i)
  \/ \E d \in Depths, down \in BOOLEAN : Navigate(d, down)
  \/ \E d \in Depths : Confirm(d)
  \/ \E d \in Depths : Escape(d)
  \/ Reopen

Spec == Init /\ [][Next]_vars

(* ---------------- keyboard navigation over any item sequence ---------- *)
\* the kinds of item a sequence is built from
NavKinds ==
  { Button("k", FALSE, FALSE, None, "ok"), Button("k", TRUE, FALSE, None, "ok"),
    Button("k", FALSE, TRUE, None, "ok"), Separator("k"), Popup("k") }

RECURSIVE SeqsUpTo(_, _)
SeqsUpTo(S, n) ==
  IF n = 0 THEN { << >> }
  ELSE LET shorter == SeqsUpTo(S, n - 1)
       IN  shorter \cup { Append(q, x) : q \in shorter, x \in S }

\* a level is mounted with some item sequence and nothing focused
InitNav ==
  /\ InitMenu
  /\ InitThemes
  /\ InitShare
  /\ WidgetsIdle
  /\ navItems \in SeqsUpTo(NavKinds, MaxLen)
  /\ navFocus = NoFocus
  /\ navTrail = [from |-> NoFocus, n |-> 0]

\* downward navigation; the trail counts the steps of the current round
NavDown ==
  /\ navFocus' = NextFocusIn(navItems, navFocus)
  /\ navTrail' =
       IF navFocus = NoFocus
       THEN [from |-> navFocus', n |-> 0]
       ELSE IF navTrail.n >= Cardinality(FocusableIn(navItems))
       THEN [from |-> navFocus, n |-> 1]
       ELSE [navTrail EXCEPT !.n = @ + 1]
  /\ UNCHANGED << MenuVars, navItems, ThemeVars, ShareVars, WidgetVars >>

\* upward navigation starts a new round at the item it reaches
NavUp ==
  /\ navFocus' = PrevFocusIn(navItems, navFocus)
  /\ navFocus' # navFocus
  /\ navTrail' = [from |-> navFocus', n |-> 0]
  /\ UNCHANGED << MenuVars, navItems, ThemeVars, ShareVars, WidgetVars >>

NextNav == NavDown \/ NavUp

SpecNav == InitNav /\ [][NextNav]_vars

(* --------------------------- theme browser ---------------------------- *)
\* colorScheme of the themes of the catalogue and of the built-in ones
ColorScheme ==
  [t1 |-> "dark", t2 |-> "dark", t3 |-> "light",
   defaultDark |-> "dark", defaultLight |-> "light"]
CatalogueThemes == { "t1", "t2", "t3" }
AllThemes == DOMAIN ColorScheme

\* theme store: isThemeCurrentlyApplied(id)
IsThemeCurrentlyApplied(t) == t = darkTheme \/ t = lightTheme

\* setTheme, lines 110-128 up to the await: nothing for an applied theme,
\* else the flag is raised and the query sent
SetTheme(t) ==
  IF IsThemeCurrentlyApplied(t)
  THEN UNCHANGED << isApplying, requests, started >>
  ELSE /\ isApplying' = TRUE
       /\ started' = started + 1
       /\ requests' = requests \cup { [id |-> started + 1, theme |-> t] }

\* has room for one more query
MayStart(t) == IsThemeCurrentlyApplied(t) \/ started < MaxRequests

\* the "Set as ..." button of a theme that is not applied, lines 303-318
\* (disabled while isApplying; out of reach behind the modal details dialog)
ClickSetAs(t) ==
  /\ ~IsThemeCurrentlyApplied(t)
  /\ ~isApplying
  /\ details = None
  /\ MayStart(t)
  /\ SetTheme(t)
  /\ UNCHANGED << darkTheme, lightTheme, details >>
  /\ UNCHANGED << MenuVars, NavVars, ShareVars, WidgetVars >>

\* a click on a theme card (lines 283-287) or "Load from file" with a valid
\* theme (lines 170-186): the details dialog opens
ClickThemeItem(t) ==
  /\ details = None
  /\ details' = t
  /\ UNCHANGED << isApplying, requests, started, darkTheme, lightTheme >>
  /\ UNCHANGED << MenuVars, NavVars, ShareVars, WidgetVars >>

\* "Set as default" in the dialog (theme-details-dialog.tsx lines 40-49,
\* disabled for an applied theme): showThemeDetails resolves true
DetailsSetAsDefault ==
  /\ details # None
  /\ ~IsThemeCurrentlyApplied(details)
  /\ MayStart(details)
  /\ SetTheme(details)
  /\ details' = None
  /\ UNCHANGED << darkTheme, lightTheme >>
  /\ UNCHANGED << MenuVars, NavVars, ShareVars, WidgetVars >>

\* "Close" in the dialog: showThemeDetails resolves false
DetailsClose ==
  /\ details # None
  /\ details' = None
  /\ UNCHANGED << isApplying, requests, started, darkTheme, lightTheme >>
  /\ UNCHANGED << MenuVars, NavVars, ShareVars, WidgetVars >>

\* the awaited query of one setTheme settles (lines 115-127): with a theme,
\* with nothing, or with an error; the finally block lowers the flag
InstallThemeSettles(r, result) ==
  /\ r \in requests
  /\ requests' = requests \ { r }
  /\ darkTheme' = IF result = "theme" /\ ColorScheme[r.theme] = "dark"
                  THEN r.theme ELSE darkTheme
  /\ lightTheme' = IF result = "theme" /\ ColorScheme[r.theme] = "light"
                   THEN r.theme ELSE lightTheme
  /\ isApplying' = FALSE
  /\ UNCHANGED << started, details >>
  /\ UNCHANGED << MenuVars, NavVars, ShareVars, WidgetVars >>

QueryResults == { "theme", "empty", "error" }

NextThemes ==
  \/ \E t \in CatalogueThemes : ClickSetAs(t)
  \/ \E t \in AllThemes : ClickThemeItem(t)
  \/ DetailsSetAsDefault
  \/ DetailsClose
  \/ \E r \in requests, result \in QueryResults : InstallThemeSettles(r, result)

InitThemeBrowser ==
  InitMenu /\ NavIdle /\ InitThemes /\ InitShare /\ WidgetsIdle

SpecThemes == InitThemeBrowser /\ [][NextThemes]_vars

(* ------------------------ share-extension store ----------------------- *)
\* JSON.stringify of a value: its JSON text, as a sequence of tokens
Stringify(v) ==
  IF v.t = "null" THEN << "null" >>
  ELSE IF v.t = "object" THEN << "{", v.id, "}" >>
  ELSE IF v.t = "array" THEN << "[" >> \o v.a \o << "]" >>
  ELSE << "\"" >> \o v.a \o << "\"" >>

\* String(v), the conversion JSON.parse applies to its argument first
StringOf(v) ==
  IF v.t = "string" THEN v.a
  ELSE IF v.t = "null" THEN << "null" >>
  ELSE IF v.t = "undefined" THEN << "undefined" >>
  ELSE IF v.t = "object" THEN << "[object Object]" >>
  ELSE IF v.a = << >> THEN << >>
  ELSE [i \in 1..(2 * Len(v.a) - 1) |->
          IF i % 2 = 1 THEN v.a[(i + 1) \div 2] ELSE ","]

\* the value of a JSON text, JsThrow (a SyntaxError) for any other text
Parse(text) ==
  LET n == Len(text)
      inner == SubSeq(text, 2, n - 1)
  IN  IF text = << "null" >> THEN JsNull
      ELSE IF n = 3 /\ text[1] = "{" /\ text[3] = "}" THEN JsObject(text[2])
      ELSE IF n >= 2 /\ text[1] = "[" /\ text[n] = "]" THEN JsArray(inner)
      ELSE IF n >= 2 /\ text[1] = "\"" /\ text[n] = "\"" THEN JsString(inner)
      ELSE JsThrow

\* JSON.parse(v)
JsonParse(v) == IF v = JsThrow THEN JsThrow ELSE Parse(StringOf(v))

\* v ? ... : ...
Truthy(v) ==
  IF v.t = "string" THEN v.a # << >> ELSE v.t \in { "object", "array" }

\* MMKV.getString(key)
GetString(k) == IF mmkv[k].has THEN JsString(mmkv[k].text) ELSE absent

\* MMKV.setItem(key, JSON.stringify(v))
SetItem(k, v) == [mmkv EXCEPT ![k] = [has |-> TRUE, text |-> Stringify(v)]]

\* the values handed to the setters: a note or null, a list of ids
NoteValues == { JsNull, JsObject("n1"), JsObject("n2") }
ListValues == { JsArray(<< >>), JsArray(<< "a" >>), JsArray(<< "a", "b" >>) }

\* setAppendNote, lines 160-163
SetAppendNote(note) ==
  /\ mmkv' = SetItem(StorageKeys.appendNote, note)
  /\ appendNote' = note
  /\ stored' = [stored EXCEPT ![StorageKeys.appendNote] = note]
  /\ phase' = "used"
  /\ UNCHANGED << absent, selectedNotebooks, selectedTags, selectedTag,
                  restoreThrew >>
  /\ UNCHANGED << MenuVars, NavVars, ThemeVars, WidgetVars >>

\* setSelectedNotebooks, lines 176-182
SetSelectedNotebooks(list) ==
  /\ mmkv' = SetItem(StorageKeys.selectedNotebooks, list)
  /\ selectedNotebooks' = list
  /\ stored' = [stored EXCEPT ![StorageKeys.selectedNotebooks] = list]
  /\ phase' = "used"
  /\ UNCHANGED << absent, appendNote, selectedTags, selectedTag, restoreThrew >>
  /\ UNCHANGED << MenuVars, NavVars, ThemeVars, WidgetVars >>

\* setSelectedTags, lines 183-186
SetSelectedTags(list) ==
  /\ mmkv' = SetItem(StorageKeys.selectedTag, list)
  /\ selectedTags' = list
  /\ stored' = [stored EXCEPT ![StorageKeys.selectedTag] = list]
  /\ phase' = "used"
  /\ UNCHANGED << absent, appendNote, selectedNotebooks, selectedTag,
                  restoreThrew >>
  /\ UNCHANGED << MenuVars, NavVars, ThemeVars, WidgetVars >>

\* restore, lines 164-173.  An exception leaves the store as it was.
Restore ==
  LET note == GetString(StorageKeys.appendNote)
      notebooks == GetString(StorageKeys.selectedNotebooks)
      tags == GetString(StorageKeys.selectedTag)
      parsed == JsonParse(note)
      newNote == IF parsed = JsThrow THEN JsThrow
                 ELSE IF Truthy(parsed) THEN JsonParse(parsed) ELSE JsNull
      newNotebooks == IF Truthy(notebooks) THEN JsonParse(notebooks)
                      ELSE JsArray(<< >>)
      newTag == IF Truthy(tags) THEN JsonParse(tags) ELSE JsArray(<< >>)
      throws == JsThrow \in { newNote, newNotebooks, newTag }
  IN  /\ restoreThrew' = throws
      /\ appendNote' = IF throws THEN appendNote ELSE newNote
      /\ selectedNotebooks' = IF throws THEN selectedNotebooks ELSE newNotebooks
      /\ selectedTag' = IF throws THEN selectedTag ELSE newTag
      /\ phase' = IF phase = "fresh" THEN "restored" ELSE "used"
      /\ UNCHANGED << mmkv, absent, selectedTags, stored >>
      /\ UNCHANGED << MenuVars, NavVars, ThemeVars, WidgetVars >>

\* the share extension starts again: create() builds a new store, the
\* storage keeps its content
CreateStore ==
  /\ phase # "fresh"
  /\ appendNote' = JsNull
  /\ selectedNotebooks' = JsArray(<< >>)
  /\ selectedTags' = JsArray(<< >>)
  /\ selectedTag' = JsUndefined
  /\ restoreThrew' = FALSE
  /\ phase' = "fresh"
  /\ UNCHANGED << mmkv, absent, stored >>
  /\ UNCHANGED << MenuVars, NavVars, ThemeVars, WidgetVars >>

NextShare ==
  \/ \E note \in NoteValues : SetAppendNote(note)
  \/ \E list \in ListValues : SetSelectedNotebooks(list)
  \/ \E list \in ListValues : SetSelectedTags(list)
  \/ Restore
  \/ CreateStore

\* getString of a key that was never set answers null or undefined
InitShareStore ==
  /\ InitMenu /\ NavIdle /\ InitThemes /\ WidgetsIdle
  /\ FreshStore
  /\ mmkv = [k \in KeyNames |-> Unset]
  /\ stored = [k \in KeyNames |-> JsUndefined]
  /\ absent \in { JsNull, JsUndefined }

SpecShare == InitShareStore /\ [][NextShare]_vars

(* ------------------- properties panel: previous sessions -------------- *)
\* versionHistory: one unlocked and two locked sessions
Sessions ==
  { [id |-> "s1", locked |-> FALSE], [id |-> "s2", locked |-> TRUE],
    [id |-> "s3", locked |-> TRUE] }

\* db.noteHistory.content(id): the stored content, encrypted for a locked
\* session; db.vault.decryptContent gives the plain content of the same id
Content(id, enc) == [of |-> id, encrypted |-> enc]
StoredContent(s) == Content(s.id, s.locked)
NoContent == Content(None, FALSE)

\* the passwords a user may enter; only the vault password decrypts
Passwords == { "vault", "other" }
Decrypts(password) == password = "vault"

\* one call or return of the running onClick
Effect(op, content, value) == [op |-> op, content |-> content, value |-> value]

\* onOpenPreviewSession({content, dateCreated, dateEdited})
Preview(content) == Effect("onOpenPreviewSession", content, TRUE)

\* OnPassword of a callback that previews whatever decryptContent is given
OnPasswordPreviewsAlways(password) ==
  IF Decrypts(password)
  THEN << Effect("decryptContent", Content(session.id, FALSE), TRUE),
          Preview(Content(session.id, FALSE)), Effect("return", NoContent, TRUE) >>
  ELSE << Effect("decryptContent", NoContent, FALSE),
          Preview(StoredContent(session)), Effect("return", NoContent, TRUE) >>

\* the callback handed to Vault.askPassword, lines 351-364: decrypt, then
\* preview and return true; return false when decryptContent throws
OnPassword(password) ==
  IF Decrypts(password)
  THEN << Effect("decryptContent", Content(session.id, FALSE), TRUE),
          Preview(Content(session.id, FALSE)), Effect("return", NoContent, TRUE) >>
  ELSE << Effect("decryptContent", NoContent, FALSE),
          Effect("return", NoContent, FALSE) >>

\* onClick of a session entry, lines 346-348: the panel is closed and the
\* content asked for
ClickSession(s) ==
  /\ propertiesOpen
  /\ onClickAt = "idle"
  /\ clicks < MaxClicks
  /\ clicks' = clicks + 1
  /\ session' = s
  /\ propertiesOpen' = FALSE
  /\ effects' = << Effect("toggleProperties", NoContent, FALSE),
                   Effect("content", NoContent, TRUE) >>
  /\ onClickAt' = "content"
  /\ UNCHANGED OutsideSessions

\* the content arrives, lines 348-372: a locked session asks for the
\* password, an unlocked one is previewed
ContentArrives ==
  /\ onClickAt = "content"
  /\ IF session.locked
     THEN /\ onClickAt' = "password"
          /\ effects' = Append(effects, Effect("askPassword", NoContent, TRUE))
     ELSE /\ onClickAt' = "idle"
          /\ effects' = Append(effects, Preview(StoredContent(session)))
  /\ UNCHANGED << propertiesOpen, session, clicks >>
  /\ UNCHANGED OutsideSessions

\* db.noteHistory.content rejects: the onClick ends there
ContentFails ==
  /\ onClickAt = "content"
  /\ onClickAt' = "idle"
  /\ effects' = Append(effects, Effect("content", NoContent, FALSE))
  /\ UNCHANGED << propertiesOpen, session, clicks >>
  /\ UNCHANGED OutsideSessions

\* number of passwords entered for the running onClick
Attempts == Cardinality({ i \in DOMAIN effects : effects[i].op = "decryptContent" })

\* the vault dialog hands an entered password to the callback; it closes
\* when the callback returns true and asks again otherwise
EnterPassword(password) ==
  /\ onClickAt = "password"
  /\ Attempts < MaxAttempts
  /\ effects' = effects \o OnPassword(password)
  /\ onClickAt' = IF effects'[Len(effects')].value THEN "idle" ELSE "password"
  /\ UNCHANGED << propertiesOpen, session, clicks >>
  /\ UNCHANGED OutsideSessions

\* the vault dialog is dismissed
CancelPassword ==
  /\ onClickAt = "password"
  /\ onClickAt' = "idle"
  /\ effects' = Append(effects, Effect("cancel", NoContent, FALSE))
  /\ UNCHANGED << propertiesOpen, session, clicks >>
  /\ UNCHANGED OutsideSessions

\* the user shows the properties panel again
ShowProperties ==
  /\ ~propertiesOpen
  /\ propertiesOpen' = TRUE
  /\ UNCHANGED << onClickAt, session, effects, clicks >>
  /\ UNCHANGED OutsideSessions

NextSessions ==
  \/ \E s \in Sessions : ClickSession(s)
  \/ ContentArrives
  \/ ContentFails
  \/ \E password \in Passwords : EnterPassword(password)
  \/ CancelPassword
  \/ ShowProperties

InitProperties ==
  InitMenu /\ NavIdle /\ InitThemes /\ InitShare /\ WidgetsIdle

SpecSessions == InitProperties /\ [][NextSessions]_vars

(* ------------------- share extension: initial theme ------------------- *)
\* the built-in themes of @notesnook/theme
ThemeDark == "ThemeDark"
ThemeLight == "ThemeLight"
\* themes the app may have stored in its settings
StoredDarkThemes == { None, "D1", "D2" }
StoredLightThemes == { None, "L1", "L2" }
Schemes == { "dark", "light", None }
AllSettings ==
  { NoSettings } \cup
  { Settings(dark, light) : dark \in StoredDarkThemes, light \in StoredLightThemes }

\* appSettings?.name: undefined (None) without settings or without the property
Property(settings, name) ==
  IF settings.has /\ name \in DOMAIN settings.props
  THEN settings.props[name] ELSE None

\* the constant theme, lines 145-148
StoredTheme(scheme, settings) ==
  IF scheme # "dark" THEN Property(settings, "darkThem")
  ELSE Property(settings, "lightTheme")

\* theme || (scheme === "dark" ? ThemeDark : ThemeLight), lines 150-158
InitialTheme(scheme, settings) ==
  IF StoredTheme(scheme, settings) # None THEN StoredTheme(scheme, settings)
  ELSE IF scheme = "dark" THEN ThemeDark ELSE ThemeLight

\* the module is evaluated: the theme goes to the engine and to the store
ModuleLoads ==
  /\ shareTheme = None
  /\ launches < MaxLaunches
  /\ launches' = launches + 1
  /\ engineTheme' = InitialTheme(systemScheme, appSettings)
  /\ shareTheme' = InitialTheme(systemScheme, appSettings)
  /\ UNCHANGED << systemScheme, appSettings >>
  /\ UNCHANGED OutsideShareTheme

\* the share extension ends; scheme and settings may differ at the next start
ProcessEnds(scheme, settings) ==
  /\ shareTheme # None
  /\ engineTheme' = None
  /\ shareTheme' = None
  /\ systemScheme' = scheme
  /\ appSettings' = settings
  /\ UNCHANGED launches
  /\ UNCHANGED OutsideShareTheme

NextShareTheme ==
  \/ ModuleLoads
  \/ \E scheme \in Schemes, settings \in AllSettings : ProcessEnds(scheme, settings)

InitShareTheme ==
  /\ InitMenu /\ NavIdle /\ InitThemes /\ InitShare /\ InitSessions
  /\ ToggleIdle
  /\ systemScheme \in Schemes
  /\ appSettings \in AllSettings
  /\ engineTheme = None
  /\ shareTheme = None
  /\ launches = 0

SpecShareTheme == InitShareTheme /\ [][NextShareTheme]_vars

(* --------------------- diff viewer: content toggle -------------------- *)
\* a callback called by a click
ResolveConflict(saveCopy) == [fn |-> "resolveConflict", saveCopy |-> saveCopy]
OnToggle == [fn |-> "onToggle", saveCopy |-> FALSE]

\* MainOnClick of a button that calls both callbacks
MainOnClickBoth(other) == << ResolveConflict(FALSE), OnToggle >>

\* onClick of the main button, lines 52-58: the callbacks it calls, in order
MainOnClick(other) ==
  IF other THEN << ResolveConflict(FALSE) >> ELSE << OnToggle >>

\* onClick of the "Save copy" button, line 42
SaveCopyOnClick == << ResolveConflict(TRUE) >>

\* one entry of the log
Clicked(button, calls) ==
  [button |-> button, isSelected |-> isSelected,
   isOtherSelected |-> isOtherSelected, calls |-> calls]

ClickMainButton ==
  /\ toggleClicks < MaxToggleClicks
  /\ toggleClicks' = toggleClicks + 1
  /\ toggleLog' = Append(toggleLog, Clicked("main", MainOnClick(isOtherSelected)))
  /\ UNCHANGED << isSelected, isOtherSelected, label, saveCopyShown >>
  /\ UNCHANGED OutsideToggle

ClickSaveCopy ==
  /\ saveCopyShown
  /\ toggleClicks < MaxToggleClicks
  /\ toggleClicks' = toggleClicks + 1
  /\ toggleLog' = Append(toggleLog, Clicked("saveCopy", SaveCopyOnClick))
  /\ UNCHANGED << isSelected, isOtherSelected, label, saveCopyShown >>
  /\ UNCHANGED OutsideToggle

\* the diff viewer renders the toggle with other props, lines 23-33
SetProps(sel, other) ==
  /\ << sel, other >> # << isSelected, isOtherSelected >>
  /\ isSelected' = sel
  /\ isOtherSelected' = other
  /\ label' = MainLabel(sel, other)
  /\ saveCopyShown' = SaveCopyRendered(other)
  /\ UNCHANGED << toggleLog, toggleClicks >>
  /\ UNCHANGED OutsideToggle

NextToggle ==
  \/ ClickMainButton
  \/ ClickSaveCopy
  \/ \E sel \in BOOLEAN, other \in BOOLEAN : SetProps(sel, other)

InitToggle ==
  /\ InitMenu /\ NavIdle /\ InitThemes /\ InitShare /\ InitSessions
  /\ ShareThemeIdle
  /\ \E sel \in BOOLEAN, other \in BOOLEAN : Rendered(sel, other)
  /\ toggleLog = << >>
  /\ toggleClicks = 0

SpecToggle == InitToggle /\ [][NextToggle]_vars

TypeOK ==
  /\ isOpen \in BOOLEAN
  /\ opens \in 1..MaxOpens
  /\ items \in [Depths -> MenuNames \cup {None}]
  /\ focusIndex \in [Depths -> {NoFocus} \cup ItemIndices]
  /\ isSubmenuOpen \in [Depths -> BOOLEAN]
  /\ staleTimers \in [Depths -> BOOLEAN]
  /\ \A d \in Depths : hoverTimeout[d].pending \in BOOLEAN
  /\ \A k \in Handlers : invoked[k] \in 0..MaxInvocations

(* ------------------------------ properties ---------------------------- *)
\* items[i] of level d is an item focus may rest on: visible, no separator
VisibleItem(d, i) ==
  /\ i \in DOMAIN Menus[items[d]]
  /\ ~Menus[items[d]][i].isHidden
  /\ Menus[items[d]][i].type # "separator"

\* C1: in every reachable state the focus index of every mounted level is
\* either "none" or the index of an item that is neither hidden nor a
\* separator.
FocusIsNoneOrVisibleItem ==
  \A d \in Depths :
    Mounted(d) => (focusIndex[d] = NoFocus \/ VisibleItem(d, focusIndex[d]))

AllClosed == ~isOpen /\ \A d \in Depths : ~Mounted(d)

\* C2: after a click on a button without a nested menu, at whatever depth,
\* every level is closed and the root close callback was called exactly once
\* by that click.
LeafClickClosesAllOnce ==
  (last.op = "click" /\ last.item.menu = None) =>
    (AllClosed /\ last.onClose = 1)

\* C3: no level is mounted while the level that owns it is closed; a closed
\* root leaves no level mounted.
NoOrphanSubmenu ==
  /\ \A d \in Depths : Mounted(d) => isOpen
  /\ \A d \in Depths \ {0} : Mounted(d) => Mounted(d - 1)

\* an escape at the deepest level closed that level and all its owners
EscapeClosedNestedLevels ==
  last.op = "escape" /\ last.d = 2 /\ AllClosed

\* C4: a level shows at most one submenu (the single nested Menu of lines
\* 214-224), and whenever it shows one, the item at its focus index is a
\* button owning a menu, its submenu flag is set, and the shown submenu is
\* that item's menu.
SubmenuBelongsToFocusedItem ==
  \A d \in Depths \ {MaxDepth} :
    Mounted(d + 1) =>
      /\ Mounted(d)
      /\ isSubmenuOpen[d]
      /\ FocusedItem(d).type = "button"
      /\ FocusedItem(d).menu # None
      /\ items[d + 1] = FocusedItem(d).menu

\* the root shows the submenu of its second item after having shown the first
SecondSubmenuShown ==
  /\ focusIndex[0] = 2
  /\ items[1] = "MB"
  /\ last.op = "timer"
  /\ last.d = 0

\* no step mounts a submenu or sets a submenu flag
NothingOpened ==
  \A d \in Depths :
    /\ items'[d] # None => items'[d] = items[d]
    /\ isSubmenuOpen'[d] => isSubmenuOpen[d]

\* C5: when the pointer leaves a button its level's hover timer is cancelled
\* and neither entering nor leaving opened a submenu; a timer is pending only
\* for the button the pointer is on, so no expiry follows a hover that ended.
LeaveCancelsHoverTimer ==
  /\ [][last'.op = "leave" => ~hoverTimeout'[last'.d].pending]_vars
  /\ [][last'.op \in {"enter", "leave"} => NothingOpened]_vars
  /\ [](\A d \in Depths :
          hoverTimeout[d].pending => hover = << d, hoverTimeout[d].index >>)

\* the pointer entered a submenu owner and left it before the timer expired
LeftBeforeExpiry ==
  /\ last.op = "leave"
  /\ last.item.menu # None
  /\ ~last.item.isDisabled
  /\ focusIndex[last.d] = last.i
  /\ ~isSubmenuOpen[last.d]

\* C6: when the hover timer expires while the pointer is still on an enabled
\* button owning a menu, the level then shows that item's submenu and its
\* focus index is that item's index.
HoverExpiryOpensHoveredSubmenu ==
  [][\A d \in Depths \ {MaxDepth}, i \in ItemIndices :
       ( /\ last'.op = "timer" /\ last'.d = d
         /\ hover = << d, i >>
         /\ hoverTimeout[d].pending
         /\ ItemOf(items[d], i).menu # None
         /\ ~ItemOf(items[d], i).isDisabled )
       => ( /\ focusIndex'[d] = i
            /\ isSubmenuOpen'[d]
            /\ items'[d + 1] = ItemOf(items[d], i).menu )]_vars

ConfirmOnLeafActsAndCloses ==
  last.op = "confirm" =>
    /\ (last.item.type = "button" /\ last.item.menu = None) =>
         /\ last.item.onClick # None => last.onClick = last.item.key
         /\ last.onClose = 1
         /\ AllClosed
    /\ last.item.type # "button" => last.onClick = None

\* C9: when a click handler throws, onClose is still called and the menu
\* closes.
ThrowingHandlerStillCloses ==
  last.threw => (last.onClose = 1 /\ AllClosed)

\* C10: no hidden or disabled item is ever focused, shows its submenu or has
\* its click handler run.
HiddenDisabledUnreachable ==
  /\ \A d \in Depths :
       Mounted(d) => (~FocusedItem(d).isHidden /\ ~FocusedItem(d).isDisabled)
  /\ last.onClick # None => (~last.item.isHidden /\ ~last.item.isDisabled)

\* C11: a hover timer never outlives its level: no timer of a closed or
\* unmounted level is pending, and no timer callback runs for such a level.
HoverTimerDiesWithLevel ==
  /\ \A d \in Depths : ~staleTimers[d]
  /\ last.op # "staleTimer"

\* C12: within one open lifecycle every click handler runs at most once, and
\* a handler runs only in a click or confirm on its own item.
HandlerRunsOnceForConfirmedItem ==
  /\ \A k \in Handlers : invoked[k] <= 1
  /\ last.onClick # None =>
       (last.op \in {"click", "confirm"} /\ last.onClick = last.item.key)

\* C13: an escape, at whatever level, calls the close callback once and
\* leaves no level of the tree open.
EscapeClosesWholeTree ==
  last.op = "escape" => (last.onClose = 1 /\ AllClosed)

\* an escape was handled by a submenu and closed it and its owner
EscapeInSubmenuClosedOwner ==
  last.op = "escape" /\ last.d = 1 /\ AllClosed

\* timers of level d the browser still holds
PendingTimers(d) ==
  (IF hoverTimeout[d].pending THEN 1 ELSE 0) + (IF staleTimers[d] THEN 1 ELSE 0)

\* C16: a level has at most one hover timer pending, and one is pending only
\* while the pointer is on the button that scheduled it: every way out of
\* "hovering, timer pending" cancels it.
SingleOwnedHoverTimer ==
  \A d \in Depths :
    /\ PendingTimers(d) <= 1
    /\ PendingTimers(d) = 1 =>
         (Mounted(d) /\ hover = << d, hoverTimeout[d].index >>)

\* C17: pointer-enter, pointer-leave and hover-timer events of a level leave
\* the focus index and submenu flag of the levels above it unchanged, and no
\* event of a level writes the focus index or submenu flag of a level that
\* stays mounted below it.
LevelStateIsPrivate ==
  [][\A d \in Depths : last'.d = d =>
       /\ last'.op \in {"enter", "leave", "timer"} =>
            \A e \in Depths : e < d =>
              /\ focusIndex'[e] = focusIndex[e]
              /\ isSubmenuOpen'[e] = isSubmenuOpen[e]
       /\ \A e \in Depths : (e > d /\ items'[e] # None) =>
              /\ focusIndex'[e] = focusIndex[e]
              /\ isSubmenuOpen'[e] = isSubmenuOpen[e]]_vars

\* a hover timer of a submenu expired below an owner that keeps its state
NestedTimerBelowOwner ==
  /\ last.op = "timer"
  /\ last.d = 1
  /\ isSubmenuOpen[1]
  /\ focusIndex[0] = 1
  /\ isSubmenuOpen[0]

\* C18: with the submenu flag of a level set, pointer-enter on an enabled
\* button of that level changes neither focus nor the shown submenu; when
\* the timer scheduled by it expires, focus moves to that button, and the
\* submenu flag is cleared if the button owns no menu.
HoverWithOpenSubmenuWaits ==
  [][\A d \in Depths : last'.d = d =>
       /\ (last'.op = "enter" /\ isSubmenuOpen[d] /\ ~last'.item.isDisabled) =>
            /\ focusIndex' = focusIndex
            /\ isSubmenuOpen' = isSubmenuOpen
            /\ items' = items
       /\ (last'.op = "timer" /\ hoverTimeout[d].pending
             /\ hoverTimeout[d].isSubmenuOpen) =>
            /\ focusIndex'[d] = hoverTimeout[d].index
            /\ ~hoverTimeout[d].menu => ~isSubmenuOpen'[d]]_vars

\* the pointer is on another enabled button while a submenu is shown
HoveringBesideOpenSubmenu ==
  /\ last.op = "enter"
  /\ ~last.item.isDisabled
  /\ last.d < MaxDepth
  /\ Mounted(last.d + 1)
  /\ focusIndex[last.d] # last.i
  /\ hoverTimeout[last.d].pending

\* C15: a shown submenu box is visible only if it was placed at the element
\* of the focused item in the step that made it visible: a box whose anchor
\* element cannot be found is hidden, and a visible box carries the position
\* computed for the focused item.
SubmenuVisibleOnlyWhenPositioned ==
  \A d \in Depths \ {MaxDepth} :
    Mounted(d + 1) =>
      /\ ~AnchorExists(FocusedItem(d)) => visibility[d] = "hidden"
      /\ visibility[d] = "visible" => position[d] = FocusedItem(d).key

\* C14: keyboard navigation only ever stops at an item that is neither a
\* separator nor hidden, "next" moves to the nearest such item below or wraps
\* to the first one, and for every item sequence with N focusable items N
\* "next" steps from a focusable item (the first one included) lead back to it.
NavigationWraps ==
  LET c == FocusableIn(navItems)
  IN  /\ navFocus = NoFocus \/ navFocus \in c
      /\ navFocus \in c =>
           /\ navItems[navFocus].type # "separator"
           /\ ~navItems[navFocus].isHidden
      /\ (c # {} /\ navTrail.n = Cardinality(c)) => navFocus = navTrail.from
      /\ (navTrail.n > 0 /\ navTrail.n < Cardinality(c)) =>
           /\ navFocus # navTrail.from
           /\ Cardinality({ i \in c : IF navTrail.from < navFocus
                                       THEN navTrail.from < i /\ i <= navFocus
                                       ELSE i > navTrail.from \/ i <= navFocus })
                = navTrail.n

\* a full round that started at the first focusable item of a sequence
\* holding at least two focusable items and one that is skipped
WrappedRound ==
  /\ Cardinality(FocusableIn(navItems)) >= 2
  /\ Len(navItems) > Cardinality(FocusableIn(navItems))
  /\ navTrail.n = Cardinality(FocusableIn(navItems))
  /\ navTrail.from = Min(FocusableIn(navItems))
  /\ navFocus = navTrail.from

\* C19: isApplying is true exactly while at least one install request is
\* in flight, also when setTheme invocations overlap.
ApplyingExactlyWhileInFlight == isApplying <=> requests # {}

\* what restore should yield for a storage key: the value last written, or
\* the default when nothing was written
Expected(k, default) == IF stored[k] = JsUndefined THEN default ELSE stored[k]

\* C20: restore() on a freshly created store does not throw and yields
\* appendNote, selectedNotebooks and selectedTags equal to the values the
\* setters wrote to storage, null / the empty list when nothing was written.
RestoreRoundTrips ==
  phase = "restored" =>
    /\ ~restoreThrew
    /\ appendNote = Expected(StorageKeys.appendNote, JsNull)
    /\ selectedNotebooks = Expected(StorageKeys.selectedNotebooks, JsArray(<< >>))
    /\ selectedTags = Expected(StorageKeys.selectedTag, JsArray(<< >>))

\* positions of the calls of onOpenPreviewSession made by the current onClick
PreviewsAt == { i \in DOMAIN effects : effects[i].op = "onOpenPreviewSession" }

ThemeForScheme ==
  LET name == IF systemScheme = "dark" THEN "darkTheme" ELSE "lightTheme"
      wanted == Property(appSettings, name)
  IN  IF wanted # None THEN wanted
      ELSE IF systemScheme = "dark" THEN ThemeDark ELSE ThemeLight

\* C22: once the share extension has started, the theme of the theme engine
\* and the theme field of the store are the same value, and it is the stored
\* dark theme under a dark system scheme, the stored light theme under a
\* light one, and the built-in theme of the scheme when none is stored.
InitialThemeMatchesScheme ==
  shareTheme # None =>
    /\ engineTheme = shareTheme
    /\ shareTheme = ThemeForScheme

\* C23: every click on a content toggle calls exactly one callback: the main
\* button resolveConflict with saveCopy false when the other side is selected
\* and onToggle otherwise, the "Save copy" button (there only when the other
\* side is selected) resolveConflict with saveCopy true; the main button reads
\* "Undo" when this side is selected, else "Discard" when the other side is,
\* else "Keep".
OneCallbackPerClick ==
  /\ Len(toggleLog) = toggleClicks
  /\ \A n \in DOMAIN toggleLog :
       LET c == toggleLog[n]
       IN  /\ Len(c.calls) = 1
           /\ c.button = "main" =>
                c.calls[1] = IF c.isOtherSelected THEN ResolveConflict(FALSE)
                             ELSE OnToggle
           /\ c.button = "saveCopy" =>
                c.isOtherSelected /\ c.calls[1] = ResolveConflict(TRUE)
  /\ saveCopyShown <=> isOtherSelected
  /\ isSelected => label = "Undo"
  /\ (~isSelected /\ isOtherSelected) => label = "Discard"
  /\ (~isSelected /\ ~isOtherSelected) => label = "Keep"

\* the main button discarded with the other side selected, after it had
\* toggled with no side selected
DiscardedAfterKeep ==
  /\ Len(toggleLog) = 2
  /\ toggleLog[1].calls = << OnToggle >>
  /\ toggleLog[2].button = "main"
  /\ toggleLog[2].calls = << ResolveConflict(FALSE) >>
====
